---- MODULE Spec2Model ----
(***************************************************************************)
(* Model of the Everything3 wrapper class (src/everything3.py).            *)
(*                                                                         *)
(* The wrapper object owns two native handles (client, search state) and   *)
(* two result fields (items, num_results).  search() is modelled one       *)
(* native call per step, so that calls made from several Python threads    *)
(* can interleave where ctypes releases the interpreter lock.              *)
(*                                                                         *)
(* The native library is not part of the sources; only its prototypes and  *)
(* call sites are.  Its behaviour (query compilation, viewport, path       *)
(* resolution) is modelled from the specification's engine description.    *)
(***************************************************************************)
EXTENDS Integers, Sequences, FiniteSets, TLC

\* ------------------------------------------------------------------ bounds
NumEntries == 3
MaxOffset == 2
MaxCount == 2
MaxViewport == 1
MaxSearches == 2
MaxCalls == 4
MaxLong == 1
MaxFoldersFirst == 1
NumThreads == 2

\* ------------------------------------------------------- program constants
max_path == 32767

\* ------------------------------------------------------------------ domains
Entries == 1..NumEntries
Threads == 1..NumThreads
MainThread == {1}
ListIds == 1..(NumThreads + 2)
Patterns == {"*", "a.txt", "ext:nope", "("}
BoolOptions == {"match_path", "match_case", "match_whole_word", "regex",
                "match_diacritics", "match_prefix", "match_suffix",
                "ignore_punctuation", "whitespace", "request_total_size",
                "hide_result_omissions", "sort_mix"}
Options == BoolOptions \cup {"folders_first"}

Min(a, b) == IF a < b THEN a ELSE b

VARIABLES
  obj,          \* lifecycle of the Everything3 object
  dll,          \* attribute self.dll is set
  client,       \* attribute self.client: "unset", "null" or "handle"
  search_state, \* attribute self.search_state: "unset", "null" or "handle"
  ss,           \* contents of the native search state
  items,        \* attribute self.items: id of the bound list, 0 = unset
  num_results,  \* attribute self.num_results, -1 = unset
  lists,        \* Python list objects, by id
  rlHeap,       \* native result lists that are not destroyed, by handle
  longSet,      \* index entries whose full path exceeds the maximum length
  th,           \* per calling thread: position in search() and its locals
  native,       \* log of native create/destroy calls on client and state
  lastSet,      \* per option: the value given by the latest setter call
  nsearch,      \* number of search calls started
  nsets,        \* number of setter calls made
  script,       \* calls still to be made by a scripted caller
  results       \* values returned to the scripted caller, in order

vars == <<obj, dll, client, search_state, ss, items, num_results, lists,
          rlHeap, longSet, th, native, lastSet, nsearch, nsets,
          script, results>>

\* ============================================================ native engine

\* full ordered match sequence of a query text under the match options
Matches(text, opt) ==
  CASE text = "*" -> [k \in 1..NumEntries |-> k]
    [] text = "a.txt" -> IF opt["match_case"] THEN <<2>> ELSE <<1, 2>>
    [] OTHER -> <<>>

\* the query compiler rejects the text
Rejected(text, opt) ==
  \/ text = "("
  \/ opt["regex"] /\ text = "*"

\* the viewport (offset, count) window of a match sequence; count 0 = no limit
Viewport(M, off, cnt) ==
  LET last == IF cnt = 0 THEN Len(M) ELSE Min(Len(M), off + cnt)
  IN  IF off >= Len(M) THEN <<>> ELSE SubSeq(M, off + 1, last)

\* Everything3_CreateSearchState: default options
DefaultOptions ==
  [o \in Options |-> IF o = "folders_first" THEN 0 ELSE FALSE]

Everything3_CreateSearchState ==
  [text |-> "", offset |-> 0, count |-> 0, opt |-> DefaultOptions]

Everything3_SetSearchTextW(s, text) == [s EXCEPT !.text = text]
Everything3_SetSearchViewportOffset(s, off) == [s EXCEPT !.offset = off]
Everything3_SetSearchViewportCount(s, cnt) == [s EXCEPT !.count = cnt]
SetSearchOption(s, o, v) == [s EXCEPT !.opt[o] = v]

\* Everything3_Search: the result list built for a search state
Everything3_Search(s) ==
  LET M == Matches(s.text, s.opt)
  IN  [total |-> Len(M), win |-> Viewport(M, s.offset, s.count)]

Everything3_GetResultListCount(r) == r.total

\* length of the full path of an entry
PathLength(e) == IF e \in longSet THEN max_path + 1 ELSE NumEntries

\* Everything3_GetResultFullPathNameW succeeds for index idx of result list r
PathResolves(r, idx, size) ==
  /\ idx < Len(r.win)
  /\ PathLength(r.win[idx + 1]) < size

\* the entry at index idx of result list r; 0 when the index is out of range
EntryAt(r, idx) == IF idx < Len(r.win) THEN r.win[idx + 1] ELSE 0

\* the full path of an entry, as an abstract string; 0 is the empty string
FullPath(e) == e

\* possible buffer contents after Everything3_GetResultFullPathNameW
BufferAfter(r, idx, size, buf) ==
  IF PathResolves(r, idx, size) THEN {FullPath(r.win[idx + 1])} ELSE {buf, 0}

\* ================================================================ the object

ThreadInit ==
  [pc |-> "idle", pattern |-> "", offset |-> 0, count |-> 0,
   result_list |-> 0, num |-> 0, i |-> 0, buf |-> 0, ret |-> 0,
   used |-> <<>>, optUsed |-> DefaultOptions, full |-> <<>>,
   produced |-> <<>>, rejected |-> FALSE, executed |-> FALSE,
   acquired |-> FALSE, destroys |-> 0]

NativeInit ==
  [clientAcq |-> 0, stateAcq |-> 0, clientDestroyed |-> 0,
   stateDestroyed |-> 0, nullDestroys |-> 0]

InitCommon ==
  /\ obj = "none"
  /\ dll = FALSE
  /\ client = "unset"
  /\ search_state = "unset"
  /\ ss = Everything3_CreateSearchState
  /\ items = 0
  /\ num_results = -1
  /\ lists = [l \in ListIds |-> <<>>]
  /\ rlHeap = [h \in {} |-> 0]
  /\ longSet \in {S \in SUBSET Entries : Cardinality(S) <= MaxLong}
  /\ th = [t \in Threads |-> ThreadInit]
  /\ native = NativeInit
  /\ lastSet = DefaultOptions
  /\ nsearch = 0
  /\ nsets = 0
  /\ results = <<>>

Init ==
  /\ InitCommon
  /\ script = <<>>

\* __init__ with _setup_functions: the DLL is present or not, the connection
\* succeeds or not, the search state is created or not
Everything3_init ==
  /\ obj = "none"
  /\ \E dllFound \in BOOLEAN, connected \in BOOLEAN, created \in BOOLEAN :
       IF ~dllFound
       THEN /\ obj' = "failed"
            /\ UNCHANGED <<dll, client, search_state, native>>
       ELSE /\ dll' = TRUE
            /\ IF ~connected
               THEN /\ client' = "null"
                    /\ obj' = "failed"
                    /\ UNCHANGED <<search_state, native>>
               ELSE /\ client' = "handle"
                    /\ IF ~created
                       THEN /\ search_state' = "null"
                            /\ obj' = "failed"
                            /\ native' = [native EXCEPT !.clientAcq = @ + 1]
                       ELSE /\ search_state' = "handle"
                            /\ obj' = "ready"
                            /\ native' = [native EXCEPT !.clientAcq = @ + 1,
                                                        !.stateAcq = @ + 1]
  /\ UNCHANGED <<ss, items, num_results, lists, rlHeap, longSet, th, lastSet,
                 nsearch, nsets, script, results>>

Quiescent == \A t \in Threads : th[t].pc \in {"idle", "returned", "raised"}

\* native destroy calls made for one attribute value
DestroyLog(n, attr, field) ==
  CASE attr = "handle" -> [n EXCEPT ![field] = @ + 1]
    [] attr = "null" -> [n EXCEPT !.nullDestroys = @ + 1]
    [] OTHER -> n

\* __del__
Everything3_del ==
  /\ obj \in {"ready", "failed"}
  /\ Quiescent
  /\ obj' = "dead"
  /\ native' = DestroyLog(DestroyLog(native, search_state, "stateDestroyed"),
                          client, "clientDestroyed")
  /\ UNCHANGED <<dll, client, search_state, ss, items, num_results, lists,
                 rlHeap, longSet, th, lastSet, nsearch, nsets,
                 script, results>>

\* ------------------------------------------------------------------ search

InCall(t) == th[t].pc \notin {"idle", "returned", "raised"}

\* the Python list a returned reference denotes; 0 is a fresh empty list
RetVal(t) == IF th[t].ret = 0 THEN <<>> ELSE lists[th[t].ret]

\* the strings of a list
Vals(l) == [k \in 1..Len(l) |-> l[k].v]

\* a list object no reference points to
FreeList ==
  CHOOSE l \in ListIds :
    /\ l # items
    /\ \A t \in Threads : th[t].ret # l
    /\ \A m \in ListIds :
         (m # items /\ \A t \in Threads : th[t].ret # m) => l <= m

\* a result list handle that is not in use
FreeHandle ==
  CHOOSE h \in 1..(Cardinality(DOMAIN rlHeap) + 1) : h \notin DOMAIN rlHeap

\* entry of search(pattern, offset, count)
Enter(t, p, off, cnt) ==
  /\ obj = "ready"
  /\ ~InCall(t)
  /\ nsearch' = nsearch + 1
  /\ th' = [th EXCEPT ![t] = [ThreadInit EXCEPT !.pc = "setText",
                                               !.pattern = p,
                                               !.offset = off,
                                               !.count = cnt]]

\* a caller starts search with any arguments
Call(t) ==
  /\ script = <<>>
  /\ nsearch < MaxSearches
  /\ \E p \in Patterns, off \in 0..MaxOffset, cnt \in 0..MaxCount :
       Enter(t, p, off, cnt)
  /\ UNCHANGED <<obj, dll, client, search_state, ss, items, num_results,
                 lists, rlHeap, longSet, native, lastSet, nsets,
                 script, results>>

\* a caller starts search with the default or the given viewport arguments
CallNarrow(t) ==
  /\ script = <<>>
  /\ nsearch < MaxSearches
  /\ nsets + nsearch < MaxCalls
  /\ \E p \in Patterns, off \in {0, MaxViewport}, cnt \in {0, MaxViewport} :
       Enter(t, p, off, cnt)
  /\ UNCHANGED <<obj, dll, client, search_state, ss, items, num_results,
                 lists, rlHeap, longSet, native, lastSet, nsets,
                 script, results>>

\* the scripted caller starts its next call; an exception ends the script
ScriptedCall(t) ==
  /\ Len(results) < Len(script)
  /\ th[t].pc # "raised"
  /\ LET c == script[Len(results) + 1]
     IN  Enter(t, c.pattern, c.offset, c.count)
  /\ UNCHANGED <<obj, dll, client, search_state, ss, items, num_results,
                 lists, rlHeap, longSet, native, lastSet, nsets,
                 script, results>>

\* the value handed to a scripted caller is recorded when the call returns
Returned(val) ==
  results' = IF script # <<>> THEN Append(results, val) ELSE results

\* line 154
search_SetText(t) ==
  /\ th[t].pc = "setText"
  /\ ss' = Everything3_SetSearchTextW(ss, th[t].pattern)
  /\ th' = [th EXCEPT ![t].pc = "setOffset"]
  /\ UNCHANGED <<obj, dll, client, search_state, items, num_results, lists,
                 rlHeap, longSet, native, lastSet, nsearch, nsets,
                 script, results>>

\* line 157
search_SetOffset(t) ==
  /\ th[t].pc = "setOffset"
  /\ ss' = Everything3_SetSearchViewportOffset(ss, th[t].offset)
  /\ th' = [th EXCEPT ![t].pc = "setCount"]
  /\ UNCHANGED <<obj, dll, client, search_state, items, num_results, lists,
                 rlHeap, longSet, native, lastSet, nsearch, nsets,
                 script, results>>

\* line 158
search_SetCount(t) ==
  /\ th[t].pc = "setCount"
  /\ ss' = Everything3_SetSearchViewportCount(ss, th[t].count)
  /\ th' = [th EXCEPT ![t].pc = "exec"]
  /\ UNCHANGED <<obj, dll, client, search_state, items, num_results, lists,
                 rlHeap, longSet, native, lastSet, nsearch, nsets,
                 script, results>>

\* what the caller's own query denotes under the options in effect
Executed(r) ==
  [r EXCEPT !.executed = TRUE,
            !.used = <<ss.text, ss.offset, ss.count>>,
            !.optUsed = ss.opt,
            !.full = Matches(r.pattern, ss.opt),
            !.rejected = Rejected(r.pattern, ss.opt)]

\* lines 161-163: a rejected query yields no result list and search returns []
search_Execute(t) ==
  /\ th[t].pc = "exec"
  /\ IF Rejected(ss.text, ss.opt)
     THEN /\ th' = [th EXCEPT ![t] = [Executed(th[t]) EXCEPT
                                        !.pc = "returned", !.ret = 0]]
          /\ Returned(<<>>)
          /\ UNCHANGED rlHeap
     ELSE LET h == FreeHandle
              r == Everything3_Search(ss)
          IN  /\ rlHeap' = [k \in DOMAIN rlHeap \cup {h} |->
                              IF k = h THEN r ELSE rlHeap[k]]
              /\ th' = [th EXCEPT ![t] = [Executed(th[t]) EXCEPT
                                            !.pc = "begin",
                                            !.result_list = h,
                                            !.produced = r.win,
                                            !.acquired = TRUE]]
              /\ UNCHANGED results
  /\ UNCHANGED <<obj, dll, client, search_state, ss, items, num_results,
                 lists, longSet, native, lastSet, nsearch, nsets,
                 script>>

\* lines 166-167
search_Begin(t) ==
  /\ th[t].pc = "begin"
  /\ LET l == FreeList
     IN  /\ items' = l
         /\ lists' = [lists EXCEPT ![l] = <<>>]
  /\ num_results' = Everything3_GetResultListCount(rlHeap[th[t].result_list])
  /\ th' = [th EXCEPT ![t].pc = "num"]
  /\ UNCHANGED <<obj, dll, client, search_state, ss, rlHeap, longSet, native,
                 lastSet, nsearch, nsets, script, results>>

\* lines 169-172: the upper end of the index range
LoopBound(n, cnt) == IF cnt > 0 THEN Min(n, cnt) ELSE n

\* lines 169-175: _num, the path buffer and the start of the range
search_Num(t) ==
  /\ th[t].pc = "num"
  /\ th' = [th EXCEPT ![t].pc = "loop",
                      ![t].num = LoopBound(num_results, th[t].count),
                      ![t].buf = 0,
                      ![t].i = th[t].offset]
  /\ UNCHANGED <<obj, dll, client, search_state, ss, items, num_results,
                 lists, rlHeap, longSet, native, lastSet, nsearch,
                 nsets, script, results>>

\* lines 175-182: one iteration, or the end of the range
search_Loop(t) ==
  /\ th[t].pc = "loop"
  /\ IF th[t].i < th[t].num
     THEN LET r == rlHeap[th[t].result_list]
          IN  \E b \in BufferAfter(r, th[t].i, max_path, th[t].buf) :
                /\ lists' = [lists EXCEPT ![items] =
                               Append(@, [v |-> b, by |-> t,
                                          entry |-> EntryAt(r, th[t].i),
                                          ok |-> PathResolves(r, th[t].i,
                                                              max_path)])]
                /\ th' = [th EXCEPT ![t].buf = b, ![t].i = @ + 1]
     ELSE /\ th' = [th EXCEPT ![t].pc = "destroy"]
          /\ UNCHANGED lists
  /\ UNCHANGED <<obj, dll, client, search_state, ss, items, num_results,
                 rlHeap, longSet, native, lastSet, nsearch, nsets,
                 script, results>>

\* lines 185-187
search_Destroy(t) ==
  /\ th[t].pc = "destroy"
  /\ rlHeap' = [k \in DOMAIN rlHeap \ {th[t].result_list} |-> rlHeap[k]]
  /\ th' = [th EXCEPT ![t].pc = "returned",
                      ![t].destroys = @ + 1,
                      ![t].ret = items]
  /\ Returned(Vals(lists[items]))
  /\ UNCHANGED <<obj, dll, client, search_state, ss, items, num_results,
                 lists, longSet, native, lastSet, nsearch, nsets,
                 script>>

\* lines 174-182: an exception (MemoryError from the buffer allocation,
\* OSError from the native call, KeyboardInterrupt) leaves search
search_Raise(t) ==
  /\ th[t].pc \in {"num", "loop"}
  /\ th' = [th EXCEPT ![t].pc = "raised"]
  /\ UNCHANGED <<obj, dll, client, search_state, ss, items, num_results,
                 lists, rlHeap, longSet, native, lastSet, nsearch,
                 nsets, script, results>>

\* search when nothing raises
search_Steps(t) ==
  \/ search_SetText(t)
  \/ search_SetOffset(t)
  \/ search_SetCount(t)
  \/ search_Execute(t)
  \/ search_Begin(t)
  \/ search_Num(t)
  \/ search_Loop(t)
  \/ search_Destroy(t)

search(t) ==
  \/ search_Steps(t)
  \/ search_Raise(t)

\* ----------------------------------------------------------------- setters

\* a set_* method called with value v that forwards to the native setter of
\* option nativeOpt
Setter(method, nativeOpt, v) ==
  /\ obj = "ready"
  /\ \A t \in Threads : ~InCall(t)
  /\ nsets + nsearch < MaxCalls
  /\ nsets' = nsets + 1
  /\ ss' = SetSearchOption(ss, nativeOpt, v)
  /\ lastSet' = [lastSet EXCEPT ![method] = v]
  /\ UNCHANGED <<obj, dll, client, search_state, items, num_results, lists,
                 rlHeap, longSet, th, native, nsearch, script, results>>

set_match_path == \E enable \in BOOLEAN : Setter("match_path", "match_path", enable)
set_match_case == \E enable \in BOOLEAN : Setter("match_case", "match_case", enable)
set_match_whole_word ==
  \E enable \in BOOLEAN : Setter("match_whole_word", "match_whole_word", enable)
set_regex == \E enable \in BOOLEAN : Setter("regex", "regex", enable)
set_match_diacritics ==
  \E enable \in BOOLEAN : Setter("match_diacritics", "match_diacritics", enable)
set_match_prefix == \E enable \in BOOLEAN : Setter("match_prefix", "match_prefix", enable)
set_match_suffix_Swapped ==
  \E enable \in BOOLEAN : Setter("match_suffix", "match_prefix", enable)
set_match_suffix == \E enable \in BOOLEAN : Setter("match_suffix", "match_suffix", enable)
set_ignore_punctuation ==
  \E enable \in BOOLEAN : Setter("ignore_punctuation", "ignore_punctuation", enable)
set_whitespace == \E enable \in BOOLEAN : Setter("whitespace", "whitespace", enable)
set_folders_first ==
  \E folders_first_type \in 0..MaxFoldersFirst :
    Setter("folders_first", "folders_first", folders_first_type)
set_request_total_size ==
  \E enable \in BOOLEAN : Setter("request_total_size", "request_total_size", enable)
set_hide_result_omissions ==
  \E enable \in BOOLEAN :
    Setter("hide_result_omissions", "hide_result_omissions", enable)
set_sort_mix == \E enable \in BOOLEAN : Setter("sort_mix", "sort_mix", enable)

\* ------------------------------------------------------------ specifications

\* one caller: construction, searches, destruction
Next ==
  \/ Everything3_init
  \/ Everything3_del
  \/ \E t \in MainThread : Call(t)
  \/ \E t \in MainThread : search(t)

Spec == Init /\ [][Next]_vars

\* several callers on one object
NextConc ==
  \/ Everything3_init
  \/ \E t \in Threads : CallNarrow(t)
  \/ \E t \in Threads : search_Steps(t)

SpecConc == Init /\ [][NextConc]_vars

\* one caller that also configures the match options
NextOpt ==
  \/ Everything3_init
  \/ \E t \in MainThread : CallNarrow(t)
  \/ \E t \in MainThread : search_Steps(t)
  \/ set_match_path
  \/ set_match_case
  \/ set_match_whole_word
  \/ set_regex
  \/ set_match_diacritics
  \/ set_match_prefix
  \/ set_match_suffix
  \/ set_ignore_punctuation
  \/ set_whitespace
  \/ set_folders_first
  \/ set_request_total_size
  \/ set_hide_result_omissions
  \/ set_sort_mix

InitOpt ==
  /\ Init
  /\ longSet = {}

SpecOpt == InitOpt /\ [][NextOpt]_vars

\* a caller that pages through one query: search(p, 0, k), search(p, k, 0)
\* and search(p, 0, 0)
PagingScript(p, k) ==
  <<[pattern |-> p, offset |-> 0, count |-> k],
    [pattern |-> p, offset |-> k, count |-> 0],
    [pattern |-> p, offset |-> 0, count |-> 0]>>

InitLaw ==
  /\ InitCommon
  /\ \E p \in Patterns, k \in 0..NumEntries :
       /\ k <= Len(Matches(p, DefaultOptions))
       /\ script = PagingScript(p, k)

NextLaw ==
  \/ Everything3_init
  \/ Everything3_del
  \/ \E t \in MainThread : ScriptedCall(t)
  \/ \E t \in MainThread : search(t)

SpecLaw == InitLaw /\ [][NextLaw]_vars

\* ==================================================================== claims

Exited(t) == th[t].pc \in {"returned", "raised"}

\* number of paths the pagination contract promises
ExpectedCount(total, off, cnt) ==
  IF off >= total THEN 0
  ELSE IF cnt = 0 THEN total - off ELSE Min(cnt, total - off)

\* the paths of the matches at positions off, off+1, ... of M
ExpectedPage(M, off, cnt) ==
  [k \in 1..ExpectedCount(Len(M), off, cnt) |-> FullPath(M[off + k])]

\* C1: a search that returns a list returns exactly min(count, total - offset)
\* paths, the matches from position offset on (all of them when count = 0,
\* none when offset >= total).
C1_Pagination ==
  \A t \in MainThread :
    (th[t].pc = "returned" /\ ~th[t].rejected) =>
      Vals(RetVal(t)) = ExpectedPage(th[t].full, th[t].offset, th[t].count)

\* C2: search(p, 0, 0) equals search(p, 0, k) followed by search(p, k, 0) for
\* every 0 <= k <= total.
C2_PaginationLaw ==
  Len(results) = Len(script) /\ script # <<>> =>
    results[3] = results[1] \o results[2]

\* C3: with offset 0 and count 0 search returns the path of every entry of the
\* result list the engine produced, once each and in order; search("*")
\* returns the whole population.
C3_FullResult ==
  \A t \in MainThread :
    (th[t].pc = "returned" /\ th[t].acquired
       /\ th[t].offset = 0 /\ th[t].count = 0) =>
      /\ Vals(RetVal(t)) =
           [k \in 1..Len(th[t].produced) |-> FullPath(th[t].produced[k])]
      /\ th[t].pattern = "*" =>
           {RetVal(t)[k].v : k \in 1..Len(RetVal(t))} =
             {FullPath(e) : e \in Entries}

\* C4: a search whose query the engine rejects ends with an error, never with
\* a returned list.
C4_RejectedQueryFails ==
  \A t \in MainThread :
    (Exited(t) /\ th[t].executed /\ th[t].rejected) => th[t].pc = "raised"

\* C5: an entry whose path resolution fails is left out of the returned list:
\* every element read for an entry is the resolved path of that entry.
C5_FailedPathExcluded ==
  \A t \in MainThread :
    th[t].pc = "returned" =>
      \A k \in 1..Len(RetVal(t)) :
        RetVal(t)[k].entry # 0 =>
          RetVal(t)[k].ok /\ RetVal(t)[k].v = FullPath(RetVal(t)[k].entry)

\* C6: a result list handle obtained by a search call is destroyed exactly
\* once when the call has exited, and no handle outlives the calls.
C6_ResultListReleased ==
  /\ \A t \in MainThread :
       (Exited(t) /\ th[t].acquired) => th[t].destroys = 1
  /\ Quiescent => DOMAIN rlHeap = {}

\* C7: after destruction every acquired native handle has been destroyed once
\* and no destroy call was made for a null handle.
C7_HandlesReleased ==
  obj = "dead" =>
    /\ native.clientDestroyed = native.clientAcq
    /\ native.stateDestroyed = native.stateAcq
    /\ native.nullDestroys = 0

\* the lists search can return for given arguments when it runs alone
RECURSIVE AloneFrom(_, _, _, _)
AloneFrom(r, idx, n, buf) ==
  IF idx >= n THEN {<<>>}
  ELSE UNION {{<<b>> \o rest : rest \in AloneFrom(r, idx + 1, n, b)} :
                b \in BufferAfter(r, idx, max_path, buf)}

AloneResults(p, off, cnt, opt) ==
  IF Rejected(p, opt) THEN {<<>>}
  ELSE LET r == Everything3_Search([text |-> p, offset |-> off,
                                    count |-> cnt, opt |-> opt])
       IN  AloneFrom(r, off, LoopBound(Everything3_GetResultListCount(r), cnt), 0)

\* C8: interleaved search calls each execute with their own text and viewport
\* and return what they return when run alone, with no element appended by
\* the other call.
C8_CallsIsolated ==
  \A t \in Threads :
    /\ th[t].executed =>
         th[t].used = <<th[t].pattern, th[t].offset, th[t].count>>
    /\ th[t].pc = "returned" =>
         /\ \A k \in 1..Len(RetVal(t)) : RetVal(t)[k].by = t
         /\ Vals(RetVal(t)) \in
              AloneResults(th[t].pattern, th[t].offset, th[t].count,
                           th[t].optUsed)

\* C9: when a search call has returned, items is the list it returned and
\* num_results is the result count of that call.
C9_NoStaleResultFields ==
  \A t \in MainThread :
    th[t].pc = "returned" =>
      /\ items # 0
      /\ Vals(lists[items]) = Vals(RetVal(t))
      /\ num_results = IF th[t].rejected THEN 0 ELSE Len(th[t].full)

\* C10: every match option of the search state holds the value given by the
\* latest call of its own setter (its initial value when never set), also
\* while a search executes: search and the other setters leave it alone.
C10_OptionFrame ==
  /\ ss.opt = lastSet
  /\ \A t \in MainThread :
       (th[t].executed /\ InCall(t)) => th[t].optUsed = lastSet

\* a search has read its results under options set by two setter calls
C10_Witness ==
  \E t \in MainThread :
    /\ th[t].pc = "destroy"
    /\ th[t].i > th[t].offset
    /\ lastSet["match_suffix"] = TRUE
    /\ lastSet["match_prefix"] = FALSE
    /\ lastSet["match_case"] = TRUE
    /\ th[t].optUsed = lastSet

====
